---- MODULE Spec2Model ----
(***************************************************************************)
(* G-CTR attack-graph engine: graph_utils.py (build_attack_graph,          *)
(* find_top_paths) and gctr_agent.py (calculate_path_priority,             *)
(* format_digest, generate_digest).                                        *)
(*                                                                         *)
(* Numbers.  Efforts and edge weights are whole numbers of effort units    *)
(* (the float 1.0 is 1).  Quotients (priority, average effort) are exact   *)
(* fractions [num, den] in lowest terms.  Impact is a multiple of 0.5 and  *)
(* is carried as a fraction too.                                           *)
(*                                                                         *)
(* Strings.  A node identifier is a TLA+ string; its characters, needed by *)
(* the substring tests of the scorer and the formatter, are looked up in   *)
(* Chars.                                                                  *)
(***************************************************************************)
EXTENDS Integers, Sequences, FiniteSets, TLC

VARIABLES logs, G, raised, target, max_paths, top_paths, path, effort, priority, digest, pc

vars == <<logs, G, raised, target, max_paths, top_paths, path, effort, priority, digest, pc>>

(***************************************************************************)
(* Bounds of the model.                                                    *)
(***************************************************************************)
MaxLogs == 3

MaxEdges == 3

MaxPathLen == 3

(***************************************************************************)
(* Exact fractions.                                                        *)
(***************************************************************************)
RECURSIVE Gcd(_, _)
Gcd(a, b) == IF b = 0 THEN a ELSE Gcd(b, a % b)

Frac(n, d) == LET g == Gcd(n, d) IN [num |-> n \div g, den |-> d \div g]

FracLess(x, y) == x.num * y.den < y.num * x.den

(***************************************************************************)
(* Characters of the identifiers, str.lower() and the `in` substring test. *)
(***************************************************************************)
Chars(s) ==
    CASE s = "ROOT"          -> <<"R", "O", "O", "T">>
      [] s = "start"         -> <<"s", "t", "a", "r", "t">>
      [] s = "log"           -> <<"l", "o", "g">>
      [] s = "host"          -> <<"h", "o", "s", "t">>
      [] s = "db"            -> <<"d", "b">>
      [] s = "nmap"          -> <<"n", "m", "a", "p">>
      [] s = "gobuster"      -> <<"g", "o", "b", "u", "s", "t", "e", "r">>
      [] s = "admin_panel"   -> <<"a", "d", "m", "i", "n", "_", "p", "a", "n", "e", "l">>
      [] s = "API_Config"    -> <<"A", "P", "I", "_", "C", "o", "n", "f", "i", "g">>
      [] s = "Exposed_Admin" -> <<"E", "x", "p", "o", "s", "e", "d", "_", "A", "d", "m", "i", "n">>
      [] s = "admin"         -> <<"a", "d", "m", "i", "n">>
      [] s = "config"        -> <<"c", "o", "n", "f", "i", "g">>
      [] s = "secret"        -> <<"s", "e", "c", "r", "e", "t">>
      [] s = "api"           -> <<"a", "p", "i">>
      [] s = "token"         -> <<"t", "o", "k", "e", "n">>
      [] s = "root"          -> <<"r", "o", "o", "t">>
      [] s = "exposed"       -> <<"e", "x", "p", "o", "s", "e", "d">>

UpperCase == <<"A", "C", "E", "I", "O", "P", "R", "T">>

LowerCase == <<"a", "c", "e", "i", "o", "p", "r", "t">>

LowerChar(c) ==
    IF \E k \in 1..Len(UpperCase) : UpperCase[k] = c
    THEN LowerCase[CHOOSE k \in 1..Len(UpperCase) : UpperCase[k] = c]
    ELSE c

Lower(cs) == [k \in 1..Len(cs) |-> LowerChar(cs[k])]

Contains(hay, needle) ==
    \E k \in 1..(Len(hay) - Len(needle) + 1) :
        SubSeq(hay, k, k + Len(needle) - 1) = needle

(***************************************************************************)
(* Event records: Python dicts.  A record is a function whose domain is    *)
(* the set of keys present.  effort is [t |-> "num", n |-> k] for a JSON   *)
(* number and [t |-> "str", s |-> digits] for a JSON string.               *)
(***************************************************************************)
Get(entry, key, default) == IF key \in DOMAIN entry THEN entry[key] ELSE default

Num(k) == [t |-> "num", s |-> <<>>, n |-> k]

Str(cs) == [t |-> "str", s |-> cs, n |-> 0]

Digits == <<"0", "1", "2", "3", "4", "5", "6", "7", "8", "9">>

IsDigit(c) == \E k \in 1..10 : Digits[k] = c

DigitValue(c) == (CHOOSE k \in 1..10 : Digits[k] = c) - 1

RECURSIVE ParseDigits(_)
ParseDigits(cs) ==
    IF cs = <<>> THEN 0
    ELSE 10 * ParseDigits(SubSeq(cs, 1, Len(cs) - 1)) + DigitValue(cs[Len(cs)])

\* float(x) raises ValueError unless x is a number or a numeric string.
FloatRaises(v) ==
    v.t = "str" /\ (v.s = <<>> \/ \E k \in 1..Len(v.s) : ~IsDigit(v.s[k]))

Float(v) == IF v.t = "num" THEN v.n ELSE ParseDigits(v.s)

(***************************************************************************)
(* build_attack_graph.  The graph is [nodes, adj]: nodes in insertion      *)
(* order, adj a function from the ordered pairs that are edges to the edge *)
(* attributes.                                                             *)
(***************************************************************************)
EmptyGraph == [nodes |-> <<>>, adj |-> <<>>]

HasNode(g, n) == \E k \in 1..Len(g.nodes) : g.nodes[k] = n

HasEdge(g, u, v) == <<u, v>> \in DOMAIN g.adj

AddNode(g, n) == IF HasNode(g, n) THEN g ELSE [g EXCEPT !.nodes = Append(@, n)]

AddEdge(g, u, v, attrs) ==
    LET h == AddNode(AddNode(g, u), v)
    IN  [h EXCEPT !.adj = (<<u, v>> :> attrs) @@ g.adj]

Src(entry) == Get(entry, "from", Get(entry, "tool", "UNKNOWN"))

Dst(entry) == Get(entry, "to", Get(entry, "finding", "UNKNOWN"))

SkippedBothUnknown(entry) == Src(entry) = "UNKNOWN" /\ Dst(entry) = "UNKNOWN"

Skipped(entry) == Src(entry) = "UNKNOWN" \/ Dst(entry) = "UNKNOWN"

EntryEffort(entry) ==
    LET e == Float(Get(entry, "effort", Num(1)))
    IN  IF "success" \in DOMAIN entry /\ ~entry["success"] THEN e * 2 ELSE e

Metadata(entry) ==
    [weight    |-> EntryEffort(entry),
     tool      |-> Get(entry, "tool", ""),
     timestamp |-> Get(entry, "timestamp", ""),
     success   |-> Get(entry, "success", TRUE)]

LighterOrEqual(new, current) == new <= current

Lighter(new, current) == new < current

MergeEdge(g, entry) ==
    LET u == Src(entry)
        v == Dst(entry)
    IN  IF HasEdge(g, u, v)
        THEN IF Lighter(EntryEffort(entry), g.adj[<<u, v>>].weight)
             THEN [g EXCEPT !.adj[<<u, v>>] = Metadata(entry)]
             ELSE g
        ELSE AddEdge(g, u, v, Metadata(entry))

\* A loop body that drops the record whose effort does not convert.
LoopBodyDropsMalformed(g, entry) ==
    IF Skipped(entry) \/ FloatRaises(Get(entry, "effort", Num(1)))
    THEN [G |-> g, raised |-> FALSE]
    ELSE [G |-> MergeEdge(g, entry), raised |-> FALSE]

\* One iteration of the for loop: [G, raised].
LoopBody(g, entry) ==
    IF Skipped(entry) THEN [G |-> g, raised |-> FALSE]
    ELSE IF FloatRaises(Get(entry, "effort", Num(1))) THEN [G |-> g, raised |-> TRUE]
    ELSE [G |-> MergeEdge(g, entry), raised |-> FALSE]

RECURSIVE BuildFrom(_, _, _)
BuildFrom(g, records, k) ==
    IF k > Len(records) THEN [G |-> g, raised |-> FALSE]
    ELSE LET r == LoopBody(g, records[k])
         IN  IF r.raised THEN r ELSE BuildFrom(r.G, records, k + 1)

build_attack_graph(records) == BuildFrom(EmptyGraph, records, 1)

(***************************************************************************)
(* Records fed to the builder.                                             *)
(***************************************************************************)
Opt(key, values) == {<<>>} \cup {key :> v : v \in values}

MergeRecords ==
    {[from |-> "ROOT", to |-> "host"] @@ t @@ e @@ s :
        t \in {"tool" :> x : x \in {"nmap", "gobuster"}},
        e \in Opt("effort", {Num(2), Str(<<"x">>)}),
        s \in Opt("success", {FALSE})}

EndpointRecords ==
    {f @@ t @@ d @@ g @@ e :
        f \in Opt("from", {"UNKNOWN"}),
        t \in Opt("tool", {"nmap"}),
        d \in Opt("to", {"host"}),
        g \in Opt("finding", {"admin_panel"}),
        e \in {<<>>}}

ExtraRecords ==
    {[tool |-> "nmap", effort |-> Str(<<"x">>)],
     [from |-> "host", to |-> "host", effort |-> Str(<<"1", "2">>), success |-> TRUE, timestamp |-> "t1"],
     [from |-> "ROOT", tool |-> "nmap", to |-> "host", effort |-> Num(4), timestamp |-> "t2"]}

BuildRecords == MergeRecords \cup EndpointRecords \cup ExtraRecords

(***************************************************************************)
(* The builder's loop, one record at a time; logs is the input consumed so *)
(* far.                                                                    *)
(***************************************************************************)
InitBuild ==
    /\ logs = <<>>
    /\ G = EmptyGraph
    /\ raised = FALSE
    /\ target = "ROOT"
    /\ max_paths = 0
    /\ top_paths = <<>>
    /\ path = <<>>
    /\ effort = 0
    /\ priority = Frac(0, 1)
    /\ digest = [kind |-> "none", entries |-> <<>>, total |-> 0, avg_effort |-> Frac(0, 1)]
    /\ pc = "build"

BuildIteration ==
    /\ pc = "build"
    /\ ~raised
    /\ Len(logs) < MaxLogs
    /\ \E entry \in BuildRecords :
          /\ logs' = Append(logs, entry)
          /\ G' = LoopBody(G, entry).G
          /\ raised' = LoopBody(G, entry).raised
    /\ UNCHANGED <<target, max_paths, top_paths, path, effort, priority, digest, pc>>

NextBuild == BuildIteration

SpecBuild == InitBuild /\ [][NextBuild]_vars

(***************************************************************************)
(* find_top_paths.                                                         *)
(***************************************************************************)
NodeSet(g) == {g.nodes[k] : k \in 1..Len(g.nodes)}

Successors(g, n) == {e[2] : e \in {d \in DOMAIN g.adj : d[1] = n}}

OutDegree(g, n) == Cardinality(Successors(g, n))

IsLeaf(g, n) == OutDegree(g, n) = 0

LeavesOnly(g, start) == SelectSeq(g.nodes, LAMBDA n : IsLeaf(g, n))

\* Lines 88-95: the candidate terminals, in node order.
Candidates(g, start) ==
    LET leaves == SelectSeq(g.nodes, LAMBDA n : IsLeaf(g, n))
    IN  IF leaves # <<>> THEN leaves
        ELSE IF HasNode(g, start) THEN SelectSeq(g.nodes, LAMBDA n : n # start)
        ELSE <<>>

InPath(p, n) == \E k \in 1..Len(p) : p[k] = n

\* The simple paths that extend p to the node goal.
RECURSIVE PathsVia(_, _, _)
PathsVia(g, p, goal) ==
    IF p[Len(p)] = goal THEN {p}
    ELSE UNION {PathsVia(g, Append(p, n), goal) :
                    n \in {m \in Successors(g, p[Len(p)]) : ~InPath(p, m)}}

RECURSIVE WeightFrom(_, _, _)
WeightFrom(g, p, k) ==
    IF k >= Len(p) THEN 0
    ELSE g.adj[<<p[k], p[k + 1]>>].weight + WeightFrom(g, p, k + 1)

\* Lines 110-113.
TotalEffort(g, p) == WeightFrom(g, p, 1)

\* shortest_path without weight="weight": fewest edges.
FewestHops(g, source, goal) ==
    IF ~HasNode(g, source) \/ ~HasNode(g, goal) THEN {}
    ELSE LET all == PathsVia(g, <<source>>, goal)
         IN  {p \in all : \A q \in all : Len(p) <= Len(q)}

\* nx.shortest_path(G, source, target, weight="weight"): the paths it may
\* return; none when it raises NodeNotFound or NetworkXNoPath.
ShortestPaths(g, source, goal) ==
    IF ~HasNode(g, source) \/ ~HasNode(g, goal) THEN {}
    ELSE LET all == PathsVia(g, <<source>>, goal)
         IN  {p \in all : \A q \in all : TotalEffort(g, p) <= TotalEffort(g, q)}

\* Lines 97-119: the possible values of paths after the first k candidates.
RECURSIVE Collected(_, _, _, _)
Collected(g, start, leaves, k) ==
    IF k = 0 THEN {<<>>}
    ELSE LET before == Collected(g, start, leaves, k - 1)
             found  == ShortestPaths(g, start, leaves[k])
         IN  IF found = {} THEN before
             ELSE {Append(ps, <<p, TotalEffort(g, p)>>) : ps \in before, p \in found}

\* sorted(paths, key=lambda x: x[1]): stable.
InsertByEffort(sorted, x) ==
    LET later == {k \in 1..Len(sorted) : sorted[k][2] > x[2]}
        at    == IF later = {} THEN Len(sorted) + 1
                 ELSE CHOOSE k \in later : \A j \in later : k <= j
    IN  SubSeq(sorted, 1, at - 1) \o <<x>> \o SubSeq(sorted, at, Len(sorted))

Unsorted(ps) == ps

RECURSIVE SortedByEffort(_)
SortedByEffort(ps) ==
    IF ps = <<>> THEN <<>>
    ELSE InsertByEffort(SortedByEffort(SubSeq(ps, 1, Len(ps) - 1)), ps[Len(ps)])

\* seq[:n]
Prefix(seq, n) ==
    IF n >= 0 THEN SubSeq(seq, 1, IF n < Len(seq) THEN n ELSE Len(seq))
    ELSE SubSeq(seq, 1, Len(seq) + n)

\* The values find_top_paths may return.
find_top_paths(g, start, limit) ==
    LET leaves == Candidates(g, start)
    IN  {Prefix(SortedByEffort(ps), limit) : ps \in Collected(g, start, leaves, Len(leaves))}

FindNodes == {"ROOT", "host", "log", "db"}

FindWeights == {0, 1}

FindTargets == {"ROOT"}

FindLimits == {2, 5}

FindRecords ==
    {[from |-> u, to |-> v, effort |-> Num(w)] : u \in FindNodes, v \in FindNodes, w \in FindWeights}

InitFind ==
    /\ logs = <<>>
    /\ G = EmptyGraph
    /\ raised = FALSE
    /\ target = "ROOT"
    /\ max_paths = 0
    /\ top_paths = <<>>
    /\ path = <<>>
    /\ effort = 0
    /\ priority = Frac(0, 1)
    /\ digest = [kind |-> "none", entries |-> <<>>, total |-> 0, avg_effort |-> Frac(0, 1)]
    /\ pc = "graph"

\* The builder's loop body growing the graph handed to find_top_paths.
GrowGraph ==
    /\ pc = "graph"
    /\ Cardinality(DOMAIN G.adj) < MaxEdges
    /\ \E entry \in FindRecords : G' = LoopBody(G, entry).G
    /\ UNCHANGED <<logs, raised, target, max_paths, top_paths, path, effort, priority, digest, pc>>

FindTopPaths ==
    /\ pc = "graph"
    /\ \E start \in FindTargets, limit \in FindLimits :
          /\ target' = start
          /\ max_paths' = limit
          /\ top_paths' \in find_top_paths(G, start, limit)
    /\ pc' = "found"
    /\ UNCHANGED <<logs, G, raised, path, effort, priority, digest>>

NextFind == GrowGraph \/ FindTopPaths

SpecFind == InitFind /\ [][NextFind]_vars

(***************************************************************************)
(* calculate_path_priority.                                                *)
(***************************************************************************)
FracPlus(x, k) == Frac(x.num + k * x.den, x.den)

FracOver(x, k) == Frac(x.num, x.den * k)

critical_keywords == <<"admin", "config", "secret", "api", "token", "root">>

\* any(keyword in node.lower() for keyword in critical_keywords)
AnyKeyword(node) ==
    \E k \in 1..Len(critical_keywords) :
        Contains(Lower(Chars(node)), Chars(critical_keywords[k]))

\* A bonus for every keyword the node matches.
BonusPerKeyword(node) ==
    5 * Cardinality({k \in 1..Len(critical_keywords) :
                        Contains(Lower(Chars(node)), Chars(critical_keywords[k]))})

\* Lines 31-33, one node: the bonus added to impact.
Bonus(node) == IF AnyKeyword(node) THEN 5 ELSE 0

\* Line 27.
BaseImpact(p) == Frac(Len(p) * 3, 2)

RECURSIVE ImpactFrom(_, _, _)
ImpactFrom(impact, p, k) ==
    IF k > Len(p) THEN impact
    ELSE ImpactFrom(FracPlus(impact, Bonus(p[k])), p, k + 1)

Impact(p) == ImpactFrom(BaseImpact(p), p, 1)

\* The impact, not normalised by the effort.
priority_not_normalised(p, e, records) == Impact(p)

calculate_path_priority(p, e, records) ==
    IF e > 0 THEN FracOver(Impact(p), e) ELSE Impact(p)

ScoreNames == {"start", "admin_panel", "log", "API_Config", "ROOT"}

ScoreEfforts == {0, 1, 2, 3}

ScoreLogs == {<<>>, <<[tool |-> "nmap", to |-> "admin_panel"]>>}

PathsUpTo(names, n) == UNION {[1..k -> names] : k \in 1..n}

InitScore ==
    /\ logs \in ScoreLogs
    /\ G = EmptyGraph
    /\ raised = FALSE
    /\ target = "ROOT"
    /\ max_paths = 0
    /\ top_paths = <<>>
    /\ path \in PathsUpTo(ScoreNames, MaxPathLen)
    /\ effort \in ScoreEfforts
    /\ priority = Frac(0, 1)
    /\ digest = [kind |-> "none", entries |-> <<>>, total |-> 0, avg_effort |-> Frac(0, 1)]
    /\ pc = "score"

ScorePath ==
    /\ pc = "score"
    /\ priority' = calculate_path_priority(path, effort, logs)
    /\ pc' = "scored"
    /\ UNCHANGED <<logs, G, raised, target, max_paths, top_paths, path, effort, digest>>

NextScore == ScorePath

SpecScore == InitScore /\ [][NextScore]_vars

(***************************************************************************)
(* format_digest and generate_digest.  The digest is carried as the data   *)
(* it renders: kind "digest" with one entry per path and the summary,      *)
(* "no_paths" for the no-viable-paths notice, "no_logs" for the            *)
(* no-logs-found notice, "error" for the error diagnostic.                 *)
(***************************************************************************)
\* Lines 64-70.
TacticalRec(last_node) ==
    IF Contains(Lower(Chars(last_node)), Chars("exposed")) THEN "exploit"
    ELSE IF Contains(Lower(Chars(last_node)), Chars("admin")) THEN "escalate"
    ELSE "recon"

RECURSIVE SumEfforts(_, _)
SumEfforts(tp, k) == IF k > Len(tp) THEN 0 ELSE tp[k][2] + SumEfforts(tp, k + 1)

format_digest(tp, records) ==
    IF tp = <<>>
    THEN [kind |-> "no_paths", entries |-> <<>>, total |-> 0, avg_effort |-> Frac(0, 1)]
    ELSE [kind       |-> "digest",
          entries    |-> [i \in 1..Len(tp) |->
                            [rank   |-> i,
                             score  |-> calculate_path_priority(tp[i][1], tp[i][2], records),
                             route  |-> tp[i][1],
                             effort |-> tp[i][2],
                             rec    |-> TacticalRec(tp[i][1][Len(tp[i][1])])]],
          total      |-> Len(tp),
          avg_effort |-> Frac(SumEfforts(tp, 1), Len(tp))]

NoLogsNotice == [kind |-> "no_logs", entries |-> <<>>, total |-> 0, avg_effort |-> Frac(0, 1)]

ErrorNotice == [kind |-> "error", entries |-> <<>>, total |-> 0, avg_effort |-> Frac(0, 1)]

\* generate_digest without the `if not logs` return.
generate_digest_unguarded(records) ==
    LET built == build_attack_graph(records)
    IN  IF built.raised
        THEN {[G |-> EmptyGraph, top_paths |-> <<>>, digest |-> ErrorNotice]}
        ELSE {[G |-> built.G, top_paths |-> tp, digest |-> format_digest(tp, records)] :
                 tp \in find_top_paths(built.G, "ROOT", 5)}

\* The outcomes of generate_digest on decoded records: [G, top_paths, digest].
generate_digest(records) ==
    IF records = <<>>
    THEN {[G |-> EmptyGraph, top_paths |-> <<>>, digest |-> NoLogsNotice]}
    ELSE LET built == build_attack_graph(records)
         IN  IF built.raised
             THEN {[G |-> EmptyGraph, top_paths |-> <<>>, digest |-> ErrorNotice]}
             ELSE {[G |-> built.G, top_paths |-> tp, digest |-> format_digest(tp, records)] :
                      tp \in find_top_paths(built.G, "ROOT", 5)}

DigestRecords ==
    {[from |-> "ROOT", to |-> v] @@ e :
        v \in {"log", "admin_panel", "Exposed_Admin"},
        e \in Opt("effort", {Num(2), Num(3), Str(<<"x">>)})}
    \cup {[from |-> "log", to |-> "admin_panel"],
          [from |-> "log", to |-> "ROOT", success |-> FALSE],
          [tool |-> "nmap", effort |-> Str(<<"x">>)]}

InitDigest ==
    /\ logs \in UNION {[1..k -> DigestRecords] : k \in 0..MaxLogs}
    /\ G = EmptyGraph
    /\ raised = FALSE
    /\ target = "ROOT"
    /\ max_paths = 5
    /\ top_paths = <<>>
    /\ path = <<>>
    /\ effort = 0
    /\ priority = Frac(0, 1)
    /\ digest = [kind |-> "none", entries |-> <<>>, total |-> 0, avg_effort |-> Frac(0, 1)]
    /\ pc = "start"

GenerateDigest ==
    /\ pc = "start"
    /\ \E out \in generate_digest(logs) :
          /\ G' = out.G
          /\ top_paths' = out.top_paths
          /\ digest' = out.digest
    /\ pc' = "done"
    /\ UNCHANGED <<logs, raised, target, max_paths, path, effort, priority>>

NextDigest == GenerateDigest

SpecDigest == InitDigest /\ [][NextDigest]_vars

(***************************************************************************)
(* Properties of build_attack_graph (SpecBuild).                           *)
(***************************************************************************)
Resolved(r) == Src(r) # "UNKNOWN" /\ Dst(r) # "UNKNOWN"

Penalised(r) ==
    LET e == IF "effort" \in DOMAIN r THEN Float(r["effort"]) ELSE 1
    IN  IF "success" \in DOMAIN r /\ r["success"] = FALSE THEN 2 * e ELSE e

SamePair(i, j) == Src(logs[i]) = Src(logs[j]) /\ Dst(logs[i]) = Dst(logs[j])

Targeting(k) == {j \in 1..Len(logs) : Resolved(logs[j]) /\ SamePair(j, k)}

FirstMinimum(k) ==
    CHOOSE j \in Targeting(k) :
        \A i \in Targeting(k) :
            \/ Penalised(logs[j]) < Penalised(logs[i])
            \/ Penalised(logs[j]) = Penalised(logs[i]) /\ j <= i

Weights(g) == [e \in DOMAIN g.adj |-> g.adj[e].weight]

\* logs with the records at positions k and k + 1 exchanged.
Swapped(k) ==
    [i \in 1..Len(logs) |->
        IF i = k THEN logs[k + 1] ELSE IF i = k + 1 THEN logs[k] ELSE logs[i]]

\* C1: after any record sequence that the builder processed without raising,
\* every ordered pair targeted by a valid record has an edge whose weight is
\* the minimum penalised effort of the records targeting it (effort, doubled
\* when success is present and false) and whose tool, timestamp and success
\* are those of the first record, in input order, that attains the minimum.
\* The weights are the same for every permutation of the input: exchanging
\* two neighbouring records of any sequence leaves every weight unchanged,
\* and such exchanges generate all permutations.
C1_EdgeIsFirstMinimum ==
    ~raised =>
        /\ \A k \in 1..Len(logs) :
              Resolved(logs[k]) =>
                  LET r == logs[FirstMinimum(k)]
                  IN  /\ HasEdge(G, Src(logs[k]), Dst(logs[k]))
                      /\ G.adj[<<Src(logs[k]), Dst(logs[k])>>] =
                            [weight    |-> Penalised(r),
                             tool      |-> IF "tool" \in DOMAIN r THEN r["tool"] ELSE "",
                             timestamp |-> IF "timestamp" \in DOMAIN r THEN r["timestamp"] ELSE "",
                             success   |-> IF "success" \in DOMAIN r THEN r["success"] ELSE TRUE]
        /\ \A k \in 1..(Len(logs) - 1) :
              LET other == build_attack_graph(Swapped(k))
              IN  ~other.raised /\ Weights(other.G) = Weights(G)

\* Three records on one pair: a heavier one, then two that tie at the
\* minimum with different tools; the edge carries the tool of the earlier.
C1_Witness ==
    /\ ~raised
    /\ \E h, i, j \in 1..Len(logs) :
          /\ h < i /\ i < j
          /\ Resolved(logs[h]) /\ Resolved(logs[i]) /\ Resolved(logs[j])
          /\ SamePair(h, i) /\ SamePair(i, j)
          /\ Penalised(logs[h]) > Penalised(logs[i])
          /\ Penalised(logs[i]) = Penalised(logs[j])
          /\ logs[i]["tool"] # logs[j]["tool"]
          /\ "success" \in DOMAIN logs[i] /\ ~logs[i]["success"]
          /\ G.adj[<<Src(logs[i]), Dst(logs[i])>>].tool = logs[i]["tool"]

\* The records that created or merged into an edge: resolved endpoints, and
\* not the record on which the builder raised (the last one consumed).
Accepted == {j \in 1..Len(logs) : Resolved(logs[j]) /\ ~(raised /\ j = Len(logs))}

\* C2: a record whose source or destination does not resolve is dropped
\* without creating a node or an edge: the edges are exactly the pairs of
\* the accepted records and the nodes are exactly the endpoints of the
\* edges, each listed once.
C2_NodesAreEdgeEndpoints ==
    /\ DOMAIN G.adj = {<<Src(logs[j]), Dst(logs[j])>> : j \in Accepted}
    /\ NodeSet(G) = UNION {{e[1], e[2]} : e \in DOMAIN G.adj}
    /\ \A i, j \in 1..Len(G.nodes) : G.nodes[i] = G.nodes[j] => i = j

\* A dropped record whose source did resolve (only the destination is
\* missing), in a graph that has edges: its source is not a node.
C2_Witness ==
    /\ DOMAIN G.adj # {}
    /\ \E k \in 1..Len(logs) :
          /\ Src(logs[k]) # "UNKNOWN"
          /\ Dst(logs[k]) = "UNKNOWN"
          /\ ~HasNode(G, Src(logs[k]))

(***************************************************************************)
(* Properties of find_top_paths (SpecFind).                                *)
(***************************************************************************)
RECURSIVE SumWeights(_)
SumWeights(edges) ==
    IF edges = {} THEN 0
    ELSE LET e == CHOOSE x \in edges : TRUE
         IN  G.adj[e].weight + SumWeights(edges \ {e})

\* More than any simple path weighs.
TotalWeight == 1 + SumWeights(DOMAIN G.adj)

MinOf(S) == CHOOSE x \in S : \A y \in S : x <= y

\* One round of relaxation of the distances d over every edge.
RelaxOnce(d) ==
    [n \in NodeSet(G) |->
        MinOf({d[n]} \cup {d[e[1]] + G.adj[e].weight : e \in {x \in DOMAIN G.adj : x[2] = n}})]

\* Least total weight of a walk of at most k edges from start to each node;
\* TotalWeight or more when there is none.
RECURSIVE Distance(_, _)
Distance(start, k) ==
    IF k <= 0 THEN [n \in NodeSet(G) |-> IF n = start THEN 0 ELSE TotalWeight]
    ELSE RelaxOnce(Distance(start, k - 1))

\* Least total weight of a walk from start (target) to each node: a lightest
\* walk repeats no node, so it has fewer edges than the graph has nodes.
Dist == Distance(target, Len(G.nodes) - 1)

\* The nodes some walk from start reaches, given the distances.
ReachableSet(dist) ==
    IF target \in NodeSet(G)
    THEN LET unreachable == TotalWeight IN {n \in NodeSet(G) : dist[n] < unreachable}
    ELSE {}

LeafSet == {n \in NodeSet(G) : \A e \in DOMAIN G.adj : e[1] # n}

CandidateSet ==
    IF LeafSet # {} THEN LeafSet
    ELSE IF target \in NodeSet(G) THEN NodeSet(G) \ {target}
    ELSE {}

EndOf(entry) == entry[1][Len(entry[1])]

Ends == {EndOf(top_paths[i]) : i \in 1..Len(top_paths)}

\* C3: every entry (path, cost) of the result is a path of the graph from
\* start to a candidate terminal, its cost is the sum of its edge weights,
\* and no walk from start to that terminal weighs less; when start is a node
\* without outgoing edges its entry is the one-node path with cost 0.
C3_EntriesAreShortestPaths ==
    pc = "found" =>
        \A dist \in {Dist}, cands \in {CandidateSet} :
            \A i \in 1..Len(top_paths) :
                LET p == top_paths[i][1]
                    c == top_paths[i][2]
                IN  /\ Len(p) >= 1
                    /\ p[1] = target
                    /\ p[Len(p)] \in cands
                    /\ \A k \in 1..(Len(p) - 1) : <<p[k], p[k + 1]>> \in DOMAIN G.adj
                    /\ c = TotalEffort(G, p)
                    /\ c = dist[p[Len(p)]]
                    /\ p[Len(p)] = target => p = <<target>> /\ c = 0

\* A two-edge path that is strictly lighter than the direct edge is returned.
C3_Witness ==
    /\ pc = "found"
    /\ \E i \in 1..Len(top_paths) :
          /\ Len(top_paths[i][1]) = 3
          /\ <<target, EndOf(top_paths[i])>> \in DOMAIN G.adj
          /\ G.adj[<<target, EndOf(top_paths[i])>>].weight > top_paths[i][2]

\* C4: the result is ordered by non-decreasing cost, has length
\* min(maxPaths, number of reachable candidate terminals), holds each terminal
\* at most once and only reachable candidates, and omits no reachable
\* candidate that is strictly cheaper than an included one; when maxPaths is
\* at least the number of reachable candidates each of them appears; when
\* start is not a node of the graph the result is empty.
C4_SortedTruncatedComplete ==
    pc = "found" =>
        \A dist \in {Dist}, ends \in {Ends} :
        \A reach \in {CandidateSet \cap ReachableSet(dist)} :
            /\ \A i \in 1..(Len(top_paths) - 1) : top_paths[i][2] <= top_paths[i + 1][2]
            /\ Len(top_paths) =
                  IF max_paths < Cardinality(reach) THEN max_paths ELSE Cardinality(reach)
            /\ \A i, j \in 1..Len(top_paths) : EndOf(top_paths[i]) = EndOf(top_paths[j]) => i = j
            /\ ends \subseteq reach
            /\ \A n \in reach \ ends : \A i \in 1..Len(top_paths) : dist[n] >= top_paths[i][2]
            /\ max_paths >= Cardinality(reach) => ends = reach
            /\ target \notin NodeSet(G) => top_paths = <<>>

\* Three reachable terminals truncated to two: the omitted one is costlier
\* than both entries although it comes first in the graph's node order.
C4_Witness ==
    /\ pc = "found"
    /\ max_paths = 2
    /\ Cardinality(CandidateSet \cap ReachableSet(Dist)) = 3
    /\ Len(top_paths) = 2
    /\ \E k \in 1..Len(G.nodes) :
          /\ G.nodes[k] \in CandidateSet \cap ReachableSet(Dist)
          /\ Dist[G.nodes[k]] > top_paths[2][2]
          /\ \A j \in 1..Len(G.nodes) : G.nodes[j] = EndOf(top_paths[1]) => k < j

C5_UnreachableLeaf ==
    /\ pc = "found"
    /\ LeafSet # {}
    /\ LeafSet \cap ReachableSet(Dist) = {}
    /\ ReachableSet(Dist) \ {target} # {}
    /\ top_paths = <<>>

(***************************************************************************)
(* Properties of calculate_path_priority (SpecScore).                      *)
(***************************************************************************)
Keywords == {"admin", "config", "secret", "api", "token", "root"}

MatchingNodes(p) ==
    {k \in 1..Len(p) : \E w \in Keywords : Contains(Lower(Chars(p[k])), Chars(w))}

C7_PriorityExamples ==
    pc = "scored" =>
        /\ (path = <<"start", "admin_panel">> /\ effort = 2) => priority = [num |-> 4, den |-> 1]
        /\ (path = <<"start", "log">> /\ effort = 1) => priority = [num |-> 3, den |-> 2]

\* C7 amended: ["start", "admin_panel"] at cost 2 scores 4.0 and
\* ["start", "log"] at cost 1 scores 3.0 (two nodes, 2 * 1.5, no keyword).
C7_PriorityExamplesAmended ==
    pc = "scored" =>
        /\ (path = <<"start", "admin_panel">> /\ effort = 2) => priority = [num |-> 4, den |-> 1]
        /\ (path = <<"start", "log">> /\ effort = 1) => priority = [num |-> 3, den |-> 1]

C7_Witness ==
    /\ pc = "scored"
    /\ path = <<"start", "log">>
    /\ effort = 1
    /\ priority = [num |-> 3, den |-> 1]

\* The other example of C7, scored.
C7_AdminPanelScored ==
    /\ pc = "scored"
    /\ path = <<"start", "admin_panel">>
    /\ effort = 2
    /\ priority = [num |-> 4, den |-> 1]

(***************************************************************************)
(* Properties of generate_digest (SpecDigest).                             *)
(***************************************************************************)
\* C8 as stated: for an empty record sequence generate_digest returns the
\* no-viable-paths notice.
C8_EmptyGivesNoPathsNotice ==
    (pc = "done" /\ logs = <<>>) => digest.kind = "no_paths"

\* C8 amended: for an empty record sequence generate_digest returns the
\* no-logs-found notice, which is neither an error nor the no-viable-paths
\* notice; the no-viable-paths notice is what it returns for a non-empty
\* sequence that builds without error and yields no path from ROOT.
C8_EmptyGivesNoLogsNotice ==
    pc = "done" =>
        /\ logs = <<>> => digest = NoLogsNotice
        /\ digest.kind = "no_logs" => logs = <<>>
        /\ digest.kind = "no_paths" => logs # <<>> /\ top_paths = <<>>
        /\ (logs # <<>> /\ top_paths = <<>> /\ digest.kind # "error") => digest.kind = "no_paths"

C8_Witness == pc = "done" /\ logs = <<>> /\ digest.kind = "no_logs"

Malformed(r) == "effort" \in DOMAIN r /\ FloatRaises(r["effort"])

\* C9 as stated: a record with an effort that does not convert, wherever it
\* sits and whatever its other fields, makes generate_digest return the
\* error diagnostic.
C9_AnyMalformedEffortFails ==
    (pc = "done" /\ \E k \in 1..Len(logs) : Malformed(logs[k])) =>
        digest.kind = "error" /\ digest.entries = <<>>

\* C9 amended: a record with resolved source and destination and an effort
\* that does not convert, wherever it sits, makes generate_digest return the
\* error diagnostic, without any path entry; a record whose source or
\* destination does not resolve is dropped before its effort is converted,
\* so without a resolved malformed record there is no error.
C9_ResolvedMalformedEffortFails ==
    pc = "done" =>
        /\ (\E k \in 1..Len(logs) : Resolved(logs[k]) /\ Malformed(logs[k]))
              => digest.kind = "error" /\ digest.entries = <<>> /\ top_paths = <<>>
        /\ ~(\E k \in 1..Len(logs) : Resolved(logs[k]) /\ Malformed(logs[k]))
              => digest.kind # "error"

\* The malformed record is the last of three, after two records that alone
\* give a digest with a path: the outcome is the error diagnostic.
C9_Witness ==
    /\ pc = "done"
    /\ Len(logs) = 3
    /\ Resolved(logs[1]) /\ ~Malformed(logs[1]) /\ Dst(logs[1]) # "ROOT"
    /\ Resolved(logs[2]) /\ ~Malformed(logs[2])
    /\ Resolved(logs[3]) /\ Malformed(logs[3])
    /\ digest.kind = "error"

\* C10 as stated: the entries of the digest are numbered in non-increasing
\* order of priority score, so entry #1 has the highest score shown.
C10_EntriesByPriority ==
    (pc = "done" /\ digest.kind = "digest") =>
        \A i, j \in 1..Len(digest.entries) :
            i < j => ~FracLess(digest.entries[i].score, digest.entries[j].score)

====
